---- MODULE Spec2Model ----
(***************************************************************************)
(* PlexBridge EPG administration scripts: epg-diagnosis.py (read-only      *)
(* report) and fix-epg-system.py (destructive reseed of epg_sources,       *)
(* channels and streams).  Both run against one SQLite database file.      *)
(*                                                                         *)
(* The database is modelled as two copies of the five tables: `durable`    *)
(* is what is on disk, `work` is what the script's connection sees.  The   *)
(* Python sqlite3 module opens a transaction implicitly before the first   *)
(* DELETE/INSERT and keeps it open until conn.commit(); an uncommitted     *)
(* transaction is rolled back when the process ends.                       *)
(*                                                                         *)
(* Every call that can raise (connect, execute, commit, open/json.dump,    *)
(* close) has a failing outcome; the number of injected failures and       *)
(* process kills is bounded by MaxFaults.                                  *)
(***************************************************************************)
EXTENDS Integers, Sequences, FiniteSets, TLC

\* ---- bounds of the model -------------------------------------------------
MaxRuns == 2      \* script invocations in one behaviour
MaxFaults == 1    \* raised exceptions plus process kills in one behaviour
MaxOld == 1       \* rows in the database before the first run

\* ---- fixed data of the scripts -------------------------------------------
\* `tables` of both scripts: the four tables whose row count is reported
tables == <<"epg_sources", "epg_channels", "epg_programs", "channels">>

\* ids of the three seeded EPG sources, in list order
epg_sources == <<"tvnz-epg-source", "skytv-epg-source", "generic-epg-source">>

\* the fixed fields of the five sample channels, in list order
ChannelSeed ==
    << [name |-> "TVNZ 1",      number |-> 1,  epg_id |-> "tvnz-1"],
       [name |-> "TVNZ 2",      number |-> 2,  epg_id |-> "tvnz-2"],
       [name |-> "Three",       number |-> 3,  epg_id |-> "three"],
       [name |-> "Sky Sport 1", number |-> 51, epg_id |-> "sky-sport-1"],
       [name |-> "Sky News",    number |-> 52, epg_id |-> "sky-news"] >>

\* the fixed fields of the two sample streams: `pos` is the position in
\* sample_channels whose id the stream takes as channel_id
StreamSeed ==
    << [name |-> "TVNZ 1 Stream",      pos |-> 1],
       [name |-> "Sky Sport 1 Stream", pos |-> 4] >>

\* ---- rows that may be in the database before the first run ---------------
OldSourceIds == {"tvnz-epg-source", "legacy-source"}
OldIds == 1..MaxOld
OldChannelRow(i) ==
    [id |-> i, name |-> "old", number |-> 100 + i,
     epg_id |-> IF i % 3 = 1 THEN "" ELSE IF i % 3 = 2 THEN "legacy" ELSE "NULL"]
OldStreamRow(i) == [id |-> i, channel_id |-> i, name |-> "old"]
OldProgramRow(i) == [id |-> i, channel_id |-> i, recent |-> (i % 2 = 1)]

EmptyDb ==
    [epg_sources |-> {}, epg_channels |-> {}, epg_programs |-> {},
     channels |-> {}, streams |-> {}]

Rows(db) ==
    Cardinality(db.epg_sources) + Cardinality(db.epg_channels)
      + Cardinality(db.epg_programs) + Cardinality(db.channels)
      + Cardinality(db.streams)

\* the databases the first run may find: at most MaxOld rows in all
InitialDbs ==
    { db \in
        { [epg_sources  |-> s,
           epg_channels |-> ec,
           epg_programs |-> {OldProgramRow(i) : i \in ep},
           channels     |-> {OldChannelRow(i) : i \in c},
           streams      |-> {OldStreamRow(i) : i \in st}] :
            s \in SUBSET OldSourceIds, ec \in SUBSET OldIds, ep \in SUBSET OldIds,
            c \in SUBSET OldIds, st \in SUBSET OldIds } :
        Rows(db) <= MaxOld }

VARIABLES
    dbExists,        \* os.path.exists(db_path)
    durable,         \* the tables as stored in the database file
    work,            \* the tables as seen through the open connection
    file,            \* epg-configuration-template.json: "absent", "written", "partial"
    tool,            \* script being run: "none", "diagnosis", "repair"
    pc,              \* position of the script
    idx,             \* position in the list a loop iterates over
    exitStatus,      \* -1 while running, 0 or 1 from the script, 137 when killed
    out,             \* lines printed to standard output in this run
    log,             \* database and file operations attempted in this run
    sample_channels, \* list built at fix-epg-system.py:121
    sample_streams,  \* list built at fix-epg-system.py:188
    inserted,        \* rows whose INSERT succeeded in this run, per table
    committed,       \* conn.commit() returned in this run
    nextId,          \* number of identifiers uuid4 has produced so far
    faults,          \* failures injected so far
    runs,            \* runs started so far
    pre,             \* durable tables and template file when this run started
    prevRun          \* summary of the run before this one

vars == <<dbExists, durable, work, file, tool, pc, idx, exitStatus, out, log,
          sample_channels, sample_streams, inserted, committed, nextId,
          faults, runs, pre, prevRun>>

Line(sec, arg, n) == [sec |-> sec, arg |-> arg, n |-> n]
Op(op, ok) == [op |-> op, ok |-> ok]

NoInserted == [epg_sources |-> {}, channels |-> {}, streams |-> {}]
NoRun ==
    [tool |-> "none", status |-> -1, db |-> EmptyDb, inserted |-> NoInserted,
     insertFailures |-> 0]

\* outcomes of a call that may raise: TRUE = returns, FALSE = raises
Outcomes == IF faults < MaxFaults THEN {TRUE, FALSE} ELSE {TRUE}

\* identifiers derived from the position in the list alone, the same in every run
uuid4_fixed(k) == MaxOld + k

\* uuid.uuid4(): the k-th identifier generated after the nextId already made;
\* random 122-bit values are taken to be pairwise distinct and distinct from
\* every identifier already in the database
uuid4(k) == MaxOld + nextId + k

Init ==
    /\ dbExists \in BOOLEAN
    /\ durable \in (IF dbExists THEN InitialDbs ELSE {EmptyDb})
    /\ work = durable
    /\ file \in {"absent", "written"}
    /\ tool = "none"
    /\ pc = "done"
    /\ idx = 0
    /\ exitStatus = -1
    /\ out = <<>>
    /\ log = <<>>
    /\ sample_channels = <<>>
    /\ sample_streams = <<>>
    /\ inserted = NoInserted
    /\ committed = FALSE
    /\ nextId = 0
    /\ faults = 0
    /\ runs = 0
    /\ pre = [db |-> durable, file |-> file]
    /\ prevRun = NoRun

\* the inserts of this run that raised
InsertFailures ==
    Cardinality({i \in 1..Len(log) :
                   /\ log[i].op \in {"insert_source", "insert_channel", "insert_stream"}
                   /\ ~log[i].ok})

\* the shell starts one of the two scripts
StartRun ==
    /\ pc = "done"
    /\ runs < MaxRuns
    /\ \E t \in {"diagnosis", "repair"} : tool' = t
    /\ pc' = "check"
    /\ idx' = 0
    /\ exitStatus' = -1
    /\ out' = IF tool' = "repair" THEN <<Line("banner", "", 0)>> ELSE <<>>
    /\ log' = <<>>
    /\ sample_channels' = <<>>
    /\ sample_streams' = <<>>
    /\ inserted' = NoInserted
    /\ committed' = FALSE
    /\ runs' = runs + 1
    /\ pre' = [db |-> durable, file |-> file]
    /\ prevRun' = [tool |-> tool, status |-> exitStatus, db |-> durable,
                   inserted |-> inserted, insertFailures |-> InsertFailures]
    /\ work' = durable
    /\ UNCHANGED <<dbExists, durable, file, nextId, faults>>

\* an outer handler that prints the error and lets main return
Raise_noExit(op, sec) ==
    /\ pc' = "done"
    /\ exitStatus' = 0
    /\ out' = Append(out, Line(sec, op, 0))
    /\ log' = Append(log, Op(op, FALSE))
    /\ work' = durable
    /\ faults' = faults + 1
    /\ idx' = 0

\* the outer `except Exception` of either script: print the error, sys.exit(1);
\* the connection is dropped with its transaction uncommitted
Raise(op, sec) ==
    /\ pc' = "done"
    /\ exitStatus' = 1
    /\ out' = Append(out, Line(sec, op, 0))
    /\ log' = Append(log, Op(op, FALSE))
    /\ work' = durable
    /\ faults' = faults + 1
    /\ idx' = 0

\* a step of a script that returned normally
Step(nextpc, nextidx, op, lines) ==
    /\ pc' = nextpc
    /\ idx' = nextidx
    /\ out' = out \o lines
    /\ log' = Append(log, Op(op, TRUE))
    /\ UNCHANGED <<exitStatus, faults>>

\* SELECT COUNT(*) FROM table
Count(db, table) == Cardinality(db[table])

\* a DELETE that removes nothing
DeleteFrom_noop(db, table) == db

\* a DELETE that names epg_channels instead of the table to clear
DeleteFrom_wrongTable(db, table) == [db EXCEPT !.epg_channels = {}]

\* DELETE FROM table
DeleteFrom(db, table) == [db EXCEPT ![table] = {}]

\* INSERT INTO table: the row is added to the rows of the table
InsertInto(db, table, row) == [db EXCEPT ![table] = @ \cup {row}]

\* primary keys present in a table of rows with an id column
Ids(rows) == {r.id : r \in rows}

\* outcomes of an INSERT: a duplicate primary key always raises
InsertOutcomes(dup) == IF dup THEN {FALSE} ELSE Outcomes

\* a connection in autocommit mode: every statement is stored at once
AfterStatement_autocommit(stored, seen) == seen

\* what the database file holds after a statement ran in the connection's
\* open transaction (sqlite3.connect with the default isolation level): the
\* file is as it was, whatever the connection sees
AfterStatement(stored, seen) == stored

\* the end of one iteration of a `for` loop over n rows: the next row, or the
\* statement after the loop
NextRow(n, after) ==
    /\ pc' = IF idx < n THEN pc ELSE after
    /\ idx' = IF idx < n THEN idx + 1 ELSE 0

\* insert loops without the per-row handler: the exception reaches the outer one
InsertFailed_raises(op, dup, name, n, after) ==
    /\ Raise(op, "repair_error")
    /\ UNCHANGED inserted

\* the per-row `except Exception` of the three insert loops: report the row,
\* go on with the next one
InsertFailed(op, dup, name, n, after) ==
    /\ out' = Append(out, Line("failed", name, 0))
    /\ log' = Append(log, Op(op, FALSE))
    /\ faults' = IF dup THEN faults ELSE faults + 1
    /\ NextRow(n, after)
    /\ UNCHANGED <<work, inserted, exitStatus>>

\* ==== fix-epg-system.py ====================================================

\* a repair tool that goes on to connect whether or not the file exists
RepairCheckDb_noExit ==
    /\ tool = "repair" /\ pc = "check"
    /\ pc' = "connect"
    /\ out' = Append(out, Line("found", "", 0))
    /\ UNCHANGED <<dbExists, durable, work, file, tool, idx, exitStatus, log,
                   sample_channels, sample_streams, inserted, committed, nextId,
                   faults, runs, pre, prevRun>>

\* existence check of the database file
RepairCheckDb ==
    /\ tool = "repair" /\ pc = "check"
    /\ IF dbExists
         THEN /\ pc' = "connect"
              /\ out' = Append(out, Line("found", "", 0))
              /\ UNCHANGED exitStatus
         ELSE /\ pc' = "done"
              /\ out' = Append(out, Line("not_found", "", 0))
              /\ exitStatus' = 1
    /\ UNCHANGED <<dbExists, durable, work, file, tool, idx, log, sample_channels,
                   sample_streams, inserted, committed, nextId, faults, runs,
                   pre, prevRun>>

\* sqlite3.connect, conn.cursor
RepairConnect ==
    /\ tool = "repair" /\ pc = "connect"
    /\ \E ok \in Outcomes :
         IF ok
           THEN /\ Step("pre_count", 1, "connect", <<Line("header", "current_state", 0)>>)
                /\ work' = durable
           ELSE Raise("connect", "repair_error")
    /\ UNCHANGED <<dbExists, durable, file, tool, sample_channels, sample_streams,
                   inserted, committed, nextId, runs, pre, prevRun>>

\* current state analysis: one COUNT per table of `tables`
RepairCountBefore ==
    /\ tool = "repair" /\ pc = "pre_count"
    /\ \E ok \in Outcomes :
         IF ok
           THEN /\ Step(IF idx < Len(tables) THEN "pre_count" ELSE "del_sources",
                        IF idx < Len(tables) THEN idx + 1 ELSE 0,
                        "count",
                        <<Line("count", tables[idx], Count(work, tables[idx]))>>)
                /\ UNCHANGED work
           ELSE Raise("count", "repair_error")
    /\ UNCHANGED <<dbExists, durable, file, tool, sample_channels, sample_streams,
                   inserted, committed, nextId, runs, pre, prevRun>>

\* DELETE FROM epg_sources
DeleteSources ==
    /\ tool = "repair" /\ pc = "del_sources"
    /\ \E ok \in Outcomes :
         IF ok
           THEN /\ Step("ins_source", 1, "delete_sources", <<>>)
                /\ work' = DeleteFrom(work, "epg_sources")
           ELSE Raise("delete_sources", "repair_error")
    /\ durable' = AfterStatement(durable, work')
    /\ UNCHANGED <<dbExists, file, tool, sample_channels, sample_streams,
                   inserted, committed, nextId, runs, pre, prevRun>>

\* one iteration of `for source in epg_sources`
InsertSource ==
    /\ tool = "repair" /\ pc = "ins_source"
    /\ LET id == epg_sources[idx]
           dup == id \in work.epg_sources
       IN \E ok \in InsertOutcomes(dup) :
            IF ok
              THEN /\ work' = InsertInto(work, "epg_sources", id)
                   /\ inserted' = [inserted EXCEPT !.epg_sources = @ \cup {id}]
                   /\ out' = Append(out, Line("added", id, 0))
                   /\ log' = Append(log, Op("insert_source", TRUE))
                   /\ NextRow(Len(epg_sources), "mk_channels")
                   /\ UNCHANGED <<exitStatus, faults>>
              ELSE InsertFailed("insert_source", dup, id, Len(epg_sources), "mk_channels")
    /\ durable' = AfterStatement(durable, work')
    /\ UNCHANGED <<dbExists, file, tool, sample_channels, sample_streams,
                   committed, nextId, runs, pre, prevRun>>

\* the sample_channels list: five rows, each with a new uuid4 identifier
BuildSampleChannels ==
    /\ tool = "repair" /\ pc = "mk_channels"
    /\ sample_channels' =
         [i \in 1..Len(ChannelSeed) |->
            [id |-> uuid4(i), name |-> ChannelSeed[i].name,
             number |-> ChannelSeed[i].number, epg_id |-> ChannelSeed[i].epg_id]]
    /\ nextId' = nextId + Len(ChannelSeed)
    /\ pc' = "del_channels"
    /\ UNCHANGED <<dbExists, durable, work, file, tool, idx, exitStatus, out, log,
                   sample_streams, inserted, committed, faults, runs, pre, prevRun>>

\* DELETE FROM channels
DeleteChannels ==
    /\ tool = "repair" /\ pc = "del_channels"
    /\ \E ok \in Outcomes :
         IF ok
           THEN /\ Step("ins_channel", 1, "delete_channels", <<>>)
                /\ work' = DeleteFrom(work, "channels")
           ELSE Raise("delete_channels", "repair_error")
    /\ durable' = AfterStatement(durable, work')
    /\ UNCHANGED <<dbExists, file, tool, sample_channels, sample_streams,
                   inserted, committed, nextId, runs, pre, prevRun>>

\* one iteration of `for channel in sample_channels`
InsertChannel ==
    /\ tool = "repair" /\ pc = "ins_channel"
    /\ LET channel == sample_channels[idx]
           dup == channel.id \in Ids(work.channels)
       IN \E ok \in InsertOutcomes(dup) :
            IF ok
              THEN /\ work' = InsertInto(work, "channels", channel)
                   /\ inserted' = [inserted EXCEPT !.channels = @ \cup {channel}]
                   /\ out' = Append(out, Line("added", channel.name, 0))
                   /\ log' = Append(log, Op("insert_channel", TRUE))
                   /\ NextRow(Len(sample_channels), "mk_streams")
                   /\ UNCHANGED <<exitStatus, faults>>
              ELSE InsertFailed("insert_channel", dup, channel.name, Len(sample_channels), "mk_streams")
    /\ durable' = AfterStatement(durable, work')
    /\ UNCHANGED <<dbExists, file, tool, sample_channels, sample_streams,
                   committed, nextId, runs, pre, prevRun>>

\* the sample_streams list: new uuid4 identifiers, channel_id taken from
\* sample_channels by position
BuildSampleStreams ==
    /\ tool = "repair" /\ pc = "mk_streams"
    /\ sample_streams' =
         [i \in 1..Len(StreamSeed) |->
            [id |-> uuid4(i),
             channel_id |-> sample_channels[StreamSeed[i].pos].id,
             name |-> StreamSeed[i].name]]
    /\ nextId' = nextId + Len(StreamSeed)
    /\ pc' = "del_streams"
    /\ UNCHANGED <<dbExists, durable, work, file, tool, idx, exitStatus, out, log,
                   sample_channels, inserted, committed, faults, runs, pre, prevRun>>

\* DELETE FROM streams
DeleteStreams ==
    /\ tool = "repair" /\ pc = "del_streams"
    /\ \E ok \in Outcomes :
         IF ok
           THEN /\ Step("ins_stream", 1, "delete_streams", <<>>)
                /\ work' = DeleteFrom(work, "streams")
           ELSE Raise("delete_streams", "repair_error")
    /\ durable' = AfterStatement(durable, work')
    /\ UNCHANGED <<dbExists, file, tool, sample_channels, sample_streams,
                   inserted, committed, nextId, runs, pre, prevRun>>

\* one iteration of `for stream in sample_streams`
InsertStream ==
    /\ tool = "repair" /\ pc = "ins_stream"
    /\ LET stream == sample_streams[idx]
           dup == stream.id \in Ids(work.streams)
       IN \E ok \in InsertOutcomes(dup) :
            IF ok
              THEN /\ work' = InsertInto(work, "streams", stream)
                   /\ inserted' = [inserted EXCEPT !.streams = @ \cup {stream}]
                   /\ out' = Append(out, Line("added", stream.name, 0))
                   /\ log' = Append(log, Op("insert_stream", TRUE))
                   /\ NextRow(Len(sample_streams), "commit")
                   /\ UNCHANGED <<exitStatus, faults>>
              ELSE InsertFailed("insert_stream", dup, stream.name, Len(sample_streams), "commit")
    /\ durable' = AfterStatement(durable, work')
    /\ UNCHANGED <<dbExists, file, tool, sample_channels, sample_streams,
                   committed, nextId, runs, pre, prevRun>>

\* a commit whose exception is caught like that of an insert: report, go on
Commit_swallows ==
    /\ tool = "repair" /\ pc = "commit"
    /\ \E ok \in Outcomes :
         IF ok
           THEN /\ Step("post_count", 1, "commit",
                        <<Line("header", "repair_completed", 0)>>)
                /\ durable' = work
                /\ committed' = TRUE
                /\ UNCHANGED work
           ELSE /\ pc' = "post_count"
                /\ idx' = 1
                /\ out' = Append(out, Line("failed", "commit", 0))
                /\ log' = Append(log, Op("commit", FALSE))
                /\ faults' = faults + 1
                /\ UNCHANGED <<durable, committed, work, exitStatus>>
    /\ UNCHANGED <<dbExists, file, tool, sample_channels, sample_streams,
                   inserted, nextId, runs, pre, prevRun>>

\* conn.commit(): the open transaction becomes the content of the file
Commit ==
    /\ tool = "repair" /\ pc = "commit"
    /\ \E ok \in Outcomes :
         IF ok
           THEN /\ Step("post_count", 1, "commit",
                        <<Line("header", "repair_completed", 0)>>)
                /\ durable' = work
                /\ committed' = TRUE
                /\ UNCHANGED work
           ELSE /\ Raise("commit", "repair_error")
                /\ UNCHANGED <<durable, committed>>
    /\ UNCHANGED <<dbExists, file, tool, sample_channels, sample_streams,
                   inserted, nextId, runs, pre, prevRun>>

\* post-repair verification: one COUNT per table of `tables`
RepairCountAfter ==
    /\ tool = "repair" /\ pc = "post_count"
    /\ \E ok \in Outcomes :
         IF ok
           THEN /\ Step(IF idx < Len(tables) THEN "post_count" ELSE "write_template",
                        IF idx < Len(tables) THEN idx + 1 ELSE 0,
                        "verify",
                        <<Line("verify", tables[idx], Count(work, tables[idx]))>>)
                /\ UNCHANGED work
           ELSE Raise("verify", "repair_error")
    /\ UNCHANGED <<dbExists, durable, file, tool, sample_channels, sample_streams,
                   inserted, committed, nextId, runs, pre, prevRun>>

\* open(config_file, 'w') and json.dump: open may raise before the file is
\* touched, json.dump after it was truncated
WriteTemplate ==
    /\ tool = "repair" /\ pc = "write_template"
    /\ \E ok \in Outcomes :
         IF ok
           THEN /\ Step("close", 0, "write_template", <<Line("saved", "", 0)>>)
                /\ file' = "written"
                /\ UNCHANGED work
           ELSE /\ Raise("write_template", "repair_error")
                /\ file' \in {file, "partial"}
    /\ UNCHANGED <<dbExists, durable, tool, sample_channels, sample_streams,
                   inserted, committed, nextId, runs, pre, prevRun>>

\* conn.close() and the normal end of main
RepairClose ==
    /\ tool = "repair" /\ pc = "close"
    /\ \E ok \in Outcomes :
         IF ok
           THEN /\ pc' = "done"
                /\ idx' = 0
                /\ exitStatus' = 0
                /\ log' = Append(log, Op("close", TRUE))
                /\ work' = durable
                /\ UNCHANGED <<out, faults>>
           ELSE Raise("close", "repair_error")
    /\ UNCHANGED <<dbExists, durable, file, tool, sample_channels, sample_streams,
                   inserted, committed, nextId, runs, pre, prevRun>>

\* the repair tool is killed between two steps while its connection is open
\* (power loss, SIGKILL); SQLite rolls the uncommitted transaction back
Crash ==
    /\ tool = "repair" /\ pc # "done"
    /\ \E i \in 1..Len(log) : log[i].op = "connect"
    /\ faults < MaxFaults
    /\ pc' = "done"
    /\ idx' = 0
    /\ exitStatus' = 137
    /\ work' = durable
    /\ faults' = faults + 1
    /\ UNCHANGED <<dbExists, durable, file, tool, out, log, sample_channels,
                   sample_streams, inserted, committed, nextId, runs, pre, prevRun>>

\* ==== epg-diagnosis.py =====================================================

\* the rows of a result set in ascending order of key[row], cut after `limit`
\* rows; rows with equal keys come in an order the database engine chooses
RECURSIVE OrderBy(_, _, _)
OrderBy(rows, key, limit) ==
    IF rows = {} \/ limit = 0
      THEN <<>>
      ELSE LET first == CHOOSE r \in rows : \A q \in rows : key[q] >= key[r]
           IN <<first>> \o OrderBy(rows \ {first}, key, limit - 1)

\* a sources section that lists the rows and has no notice for an empty table
SourcesReport_noNotice(db) ==
    [i \in 1..Cardinality(db.epg_sources) |-> Line("source", "", 0)]

\* SELECT ... FROM epg_sources: one block per source, or the notice
SourcesReport(db) ==
    IF db.epg_sources # {}
      THEN LET sources == OrderBy(db.epg_sources, [r \in db.epg_sources |-> 0],
                                  Cardinality(db.epg_sources))
           IN [i \in 1..Len(sources) |-> Line("source", sources[i], 0)]
      ELSE <<Line("no_sources", "No EPG sources configured!", 0)>>

\* SELECT COUNT(*) FROM channels WHERE epg_id IS NOT NULL AND epg_id != ''
EpgMapped(db) == Cardinality({r \in db.channels : r.epg_id # "NULL" /\ r.epg_id # ""})

\* programs of the last 7 days grouped by channel_id, most programs first, 10 groups
RecentPrograms(db) ==
    LET recent == {r \in db.epg_programs : r.recent}
        groups == {[channel_id |-> c,
                    program_count |-> Cardinality({r \in recent : r.channel_id = c})] :
                     c \in {r.channel_id : r \in recent}}
        recent_programs == OrderBy(groups, [g \in groups |-> 0 - g.program_count], 10)
    IN IF groups # {}
         THEN [i \in 1..Len(recent_programs) |->
                 Line("recent", "channel", recent_programs[i].program_count)]
         ELSE <<Line("no_recent", "", 0)>>

\* SELECT name FROM sqlite_master WHERE type='table' AND name LIKE 'epg_%'
EpgTables == {"epg_sources", "epg_channels", "epg_programs"}

\* SELECT ... FROM channels ORDER BY number LIMIT 10
SampleChannels(db) ==
    LET rows == OrderBy(db.channels, [r \in db.channels |-> r.number], 10)
    IN [i \in 1..Len(rows) |-> Line("channel", rows[i].name, rows[i].number)]

\* existence check of the database file
DiagCheckDb ==
    /\ tool = "diagnosis" /\ pc = "check"
    /\ IF dbExists
         THEN /\ pc' = "connect"
              /\ out' = Append(out, Line("found", "", 0))
              /\ UNCHANGED exitStatus
         ELSE /\ pc' = "done"
              /\ out' = Append(out, Line("not_found", "", 0))
              /\ exitStatus' = 1
    /\ UNCHANGED <<dbExists, durable, work, file, tool, idx, log, sample_channels,
                   sample_streams, inserted, committed, nextId, faults, runs,
                   pre, prevRun>>

\* sqlite3.connect, conn.cursor
DiagConnect ==
    /\ tool = "diagnosis" /\ pc = "connect"
    /\ \E ok \in Outcomes :
         IF ok
           THEN /\ Step("select_sources", 0, "connect", <<Line("header", "epg_sources", 0)>>)
                /\ work' = durable
           ELSE Raise("connect", "diagnosis_error")
    /\ UNCHANGED <<dbExists, durable, file, tool, sample_channels, sample_streams,
                   inserted, committed, nextId, runs, pre, prevRun>>

\* the EPG SOURCES section
SelectSources ==
    /\ tool = "diagnosis" /\ pc = "select_sources"
    /\ \E ok \in Outcomes :
         IF ok
           THEN /\ Step("count", 1, "select_sources",
                        SourcesReport(work) \o <<Line("header", "record_counts", 0)>>)
                /\ UNCHANGED work
           ELSE Raise("select_sources", "diagnosis_error")
    /\ UNCHANGED <<dbExists, durable, file, tool, sample_channels, sample_streams,
                   inserted, committed, nextId, runs, pre, prevRun>>

\* the RECORD COUNTS section: one COUNT per table of `tables`
DiagCount ==
    /\ tool = "diagnosis" /\ pc = "count"
    /\ \E ok \in Outcomes :
         IF ok
           THEN /\ Step(IF idx < Len(tables) THEN "count" ELSE "epg_mapped",
                        IF idx < Len(tables) THEN idx + 1 ELSE 0,
                        "count",
                        <<Line("count", tables[idx], Count(work, tables[idx]))>>
                          \o (IF idx < Len(tables) THEN <<>>
                              ELSE <<Line("header", "channels_with_epg_ids", 0)>>))
                /\ UNCHANGED work
           ELSE Raise("count", "diagnosis_error")
    /\ UNCHANGED <<dbExists, durable, file, tool, sample_channels, sample_streams,
                   inserted, committed, nextId, runs, pre, prevRun>>

\* the CHANNELS WITH EPG IDS section
CountEpgMapped ==
    /\ tool = "diagnosis" /\ pc = "epg_mapped"
    /\ \E ok \in Outcomes :
         IF ok
           THEN /\ Step("recent_programs", 0, "epg_mapped",
                        <<Line("epg_mapped", "", EpgMapped(work)),
                          Line("header", "recent_programs", 0)>>)
                /\ UNCHANGED work
           ELSE Raise("epg_mapped", "diagnosis_error")
    /\ UNCHANGED <<dbExists, durable, file, tool, sample_channels, sample_streams,
                   inserted, committed, nextId, runs, pre, prevRun>>

\* the RECENT EPG PROGRAMS section
SelectRecentPrograms ==
    /\ tool = "diagnosis" /\ pc = "recent_programs"
    /\ \E ok \in Outcomes :
         IF ok
           THEN /\ Step("init_check", 0, "recent_programs",
                        RecentPrograms(work) \o <<Line("header", "initialization_check", 0)>>)
                /\ UNCHANGED work
           ELSE Raise("recent_programs", "diagnosis_error")
    /\ UNCHANGED <<dbExists, durable, file, tool, sample_channels, sample_streams,
                   inserted, committed, nextId, runs, pre, prevRun>>

\* the EPG INITIALIZATION CHECK section
InitializationCheck ==
    /\ tool = "diagnosis" /\ pc = "init_check"
    /\ \E ok \in Outcomes :
         IF ok
           THEN /\ Step("sample_channels", 0, "init_check",
                        <<Line("epg_tables", "", Cardinality(EpgTables)),
                          Line("header", "sample_channels", 0)>>)
                /\ UNCHANGED work
           ELSE Raise("init_check", "diagnosis_error")
    /\ UNCHANGED <<dbExists, durable, file, tool, sample_channels, sample_streams,
                   inserted, committed, nextId, runs, pre, prevRun>>

\* the SAMPLE CHANNELS section
SelectSampleChannels ==
    /\ tool = "diagnosis" /\ pc = "sample_channels"
    /\ \E ok \in Outcomes :
         IF ok
           THEN /\ Step("close", 0, "sample_channels", SampleChannels(work))
                /\ UNCHANGED work
           ELSE Raise("sample_channels", "diagnosis_error")
    /\ UNCHANGED <<dbExists, durable, file, tool, sample_channels, sample_streams,
                   inserted, committed, nextId, runs, pre, prevRun>>

\* conn.close(), the completion notice and the normal end of main
DiagClose ==
    /\ tool = "diagnosis" /\ pc = "close"
    /\ \E ok \in Outcomes :
         IF ok
           THEN /\ pc' = "done"
                /\ idx' = 0
                /\ exitStatus' = 0
                /\ out' = Append(out, Line("complete", "", 0))
                /\ log' = Append(log, Op("close", TRUE))
                /\ work' = durable
                /\ UNCHANGED faults
           ELSE Raise("close", "diagnosis_error")
    /\ UNCHANGED <<dbExists, durable, file, tool, sample_channels, sample_streams,
                   inserted, committed, nextId, runs, pre, prevRun>>

Next ==
    \/ StartRun
    \/ Crash
    \/ RepairCheckDb
    \/ RepairConnect
    \/ RepairCountBefore
    \/ DeleteSources
    \/ InsertSource
    \/ BuildSampleChannels
    \/ DeleteChannels
    \/ InsertChannel
    \/ BuildSampleStreams
    \/ DeleteStreams
    \/ InsertStream
    \/ Commit
    \/ RepairCountAfter
    \/ WriteTemplate
    \/ RepairClose
    \/ DiagCheckDb
    \/ DiagConnect
    \/ SelectSources
    \/ DiagCount
    \/ CountEpgMapped
    \/ SelectRecentPrograms
    \/ InitializationCheck
    \/ SelectSampleChannels
    \/ DiagClose

Spec == Init /\ [][Next]_vars

TypeOK ==
    /\ dbExists \in BOOLEAN
    /\ tool \in {"none", "diagnosis", "repair"}
    /\ exitStatus \in {-1, 0, 1, 137}
    /\ file \in {"absent", "written", "partial"}
    /\ faults \in 0..MaxFaults
    /\ runs \in 0..MaxRuns
    /\ committed \in BOOLEAN

\* ==== properties ===========================================================

Ran(op) == \E i \in 1..Len(log) : log[i].op = op
Attempts(op) == Cardinality({i \in 1..Len(log) : log[i].op = op})
Lines(sec) == {i \in 1..Len(out) : out[i].sec = sec}
HasLine(sec) == Lines(sec) # {}
Inserts == {"insert_source", "insert_channel", "insert_stream"}
Deletes == {"delete_sources", "delete_channels", "delete_streams"}
FailedAt(i) == i \in 1..Len(log) /\ ~log[i].ok
NoInsertFailed == InsertFailures = 0
RepairSucceeded == tool = "repair" /\ pc = "done" /\ exitStatus = 0
ManagedTables == {"epg_sources", "channels", "streams"}

\* C1 (as stated): after every run of the repair tool that exits with status
\* 0, epg_sources holds exactly 3 rows, channels 5 and streams 2.
C1_ExactCountsAfterSuccess ==
    RepairSucceeded =>
        /\ Count(durable, "epg_sources") = 3
        /\ Count(durable, "channels") = 5
        /\ Count(durable, "streams") = 2

\* C1 (amended): after every run of the repair tool that exits with status 0,
\* each of the three tables holds exactly the seed rows whose insert succeeded
\* in that run, whatever it held before: at most 3, 5 and 2 rows, and exactly
\* 3, 5 and 2 when no insert failed.
C1_SeedRowsReplaceTables ==
    RepairSucceeded =>
        /\ \A t \in ManagedTables : durable[t] = inserted[t]
        /\ Count(durable, "epg_sources") <= 3
        /\ Count(durable, "channels") <= 5
        /\ Count(durable, "streams") <= 2
        /\ NoInsertFailed =>
             /\ Count(durable, "epg_sources") = 3
             /\ Count(durable, "channels") = 5
             /\ Count(durable, "streams") = 2

\* a successful run over a database that held old rows in a reseeded table
C1_Witness ==
    /\ RepairSucceeded
    /\ NoInsertFailed
    /\ \E t \in ManagedTables : pre.db[t] # {} /\ pre.db[t] \cap durable[t] = {}
    /\ Count(durable, "channels") = 5

\* C2: the deletes and inserts of a repair run become durable together at the
\* commit: until conn.commit() has returned the file holds the pre-run tables,
\* from then on it holds the pre-run tables with the three reseeded tables
\* replaced by the rows inserted in the run; no other content is ever stored.
C2_AtomicAtCommit ==
    tool = "repair" =>
        IF committed
          THEN durable = [pre.db EXCEPT !.epg_sources = inserted.epg_sources,
                                        !.channels = inserted.channels,
                                        !.streams = inserted.streams]
          ELSE durable = pre.db

\* a run that stopped, by an exception or a kill, after deleting old channel
\* rows and inserting new ones, before the commit
C2_Witness ==
    /\ tool = "repair" /\ pc = "done" /\ exitStatus \in {1, 137}
    /\ ~committed
    /\ Ran("delete_channels")
    /\ inserted.channels # {}
    /\ pre.db.channels # {}

\* C3 (as stated): once the stream inserts of a run are over, and in the
\* committed result, the channel_id of every stream inserted in the run is the
\* id of a channel row inserted in the same run.
C3_StreamsReferenceInsertedChannels ==
    (tool = "repair" /\ (pc \in {"commit", "post_count", "write_template", "close"}
                         \/ (pc = "done" /\ committed))) =>
        /\ \A st \in inserted.streams : st.channel_id \in Ids(inserted.channels)
        /\ committed => \A st \in durable.streams : st.channel_id \in Ids(durable.channels)

\* C4: a failed insert of a seed row is caught for that row alone: the rest
\* of the list is attempted, every later step runs, and the failure does not
\* make the run exit with status 1.
C4_InsertFailureIsolated ==
    tool = "repair" =>
        /\ Ran("delete_channels") => Attempts("insert_source") = 3
        /\ Ran("delete_streams") => Attempts("insert_channel") = 5
        /\ Ran("commit") => Attempts("insert_stream") = 2
        /\ (pc = "done" /\ exitStatus \in {0, 1} /\ log # <<>>) =>
              log[Len(log)].op \notin Inserts
        /\ (pc = "done" /\ exitStatus = 1 /\ log # <<>>) =>
              /\ ~log[Len(log)].ok
              /\ \A i \in 1..(Len(log) - 1) : ~log[i].ok => log[i].op \in Inserts
        /\ (pc = "done" /\ exitStatus = 0) =>
              /\ committed
              /\ Cardinality(Lines("verify")) = 4
              /\ file = "written"
              /\ Ran("close")

\* a run with a failed insert that went on to exit with status 0
C4_Witness ==
    /\ RepairSucceeded
    /\ \E i \in 1..Len(log) : log[i].op \in Inserts /\ ~log[i].ok

\* C5: with the database file missing, either script prints the not-found
\* message and exits with status 1; it opens no connection, executes no
\* statement, and the repair tool writes no template file.
C5_MissingDatabase ==
    (tool # "none" /\ ~dbExists) =>
        /\ log = <<>>
        /\ durable = pre.db /\ work = pre.db
        /\ file = pre.file
        /\ pc \in {"check", "done"}
        /\ pc = "done" =>
             /\ exitStatus = 1
             /\ out[Len(out)].sec = "not_found"
             /\ ~HasLine("found")

\* both scripts have been run against a missing database file
C5_Witness ==
    /\ ~dbExists
    /\ pc = "done" /\ exitStatus = 1
    /\ tool = "repair" /\ prevRun.tool = "diagnosis" /\ prevRun.status = 1

\* C6: a failed delete, commit or template write ends the repair run through
\* the outer handler: exit status 1, no operation after the failing one; after
\* a failed delete or commit there is no verification report and no file write.
C6_OuterHandlerAborts ==
    tool = "repair" =>
        \A i \in 1..Len(log) :
            (~log[i].ok /\ log[i].op \in Deletes \cup {"commit", "write_template"}) =>
                /\ pc = "done"
                /\ exitStatus = 1
                /\ i = Len(log)
                /\ out[Len(out)].sec = "repair_error"
                /\ Cardinality(Lines("repair_error")) = 1
                /\ ~Ran("close")
                /\ ~HasLine("saved")
                /\ log[i].op # "write_template" =>
                     /\ ~committed
                     /\ ~HasLine("verify")
                     /\ ~Ran("verify")
                     /\ ~Ran("write_template")
                     /\ file = pre.file

\* a run whose commit raised
C6_Witness ==
    /\ tool = "repair" /\ pc = "done" /\ exitStatus = 1
    /\ log # <<>> /\ log[Len(log)] = Op("commit", FALSE)

ChannelAndStreamIds(db) == Ids(db.channels) \cup Ids(db.streams)
TwoRepairsSucceeded == RepairSucceeded /\ prevRun.tool = "repair" /\ prevRun.status = 0

\* C7 (as stated): after each of two successive runs of the repair tool the
\* tables hold 3, 5 and 2 rows, and no channel or stream id present after the
\* second run was present after the first.
C7_SameCountsFreshIds ==
    TwoRepairsSucceeded =>
        /\ Count(prevRun.db, "epg_sources") = 3 /\ Count(durable, "epg_sources") = 3
        /\ Count(prevRun.db, "channels") = 5 /\ Count(durable, "channels") = 5
        /\ Count(prevRun.db, "streams") = 2 /\ Count(durable, "streams") = 2
        /\ ChannelAndStreamIds(durable) \cap ChannelAndStreamIds(prevRun.db) = {}

\* C7 (amended): after each of two successive runs of the repair tool that
\* exit with status 0, every reseeded table holds exactly the rows whose insert
\* succeeded in that run (3, 5 and 2 rows when no insert failed), and no
\* channel or stream id present after the second run was present after the
\* first.
C7_FreshIdsEachRun ==
    TwoRepairsSucceeded =>
        /\ ChannelAndStreamIds(durable) \cap ChannelAndStreamIds(prevRun.db) = {}
        /\ \A t \in ManagedTables :
              /\ durable[t] = inserted[t]
              /\ prevRun.db[t] = prevRun.inserted[t]
        /\ \A r \in {inserted, prevRun.inserted} :
              /\ Cardinality(r.epg_sources) <= 3
              /\ Cardinality(r.channels) <= 5
              /\ Cardinality(r.streams) <= 2
        /\ NoInsertFailed =>
              /\ Count(durable, "epg_sources") = 3
              /\ Count(durable, "channels") = 5
              /\ Count(durable, "streams") = 2
        /\ prevRun.insertFailures = 0 =>
              /\ Count(prevRun.db, "epg_sources") = 3
              /\ Count(prevRun.db, "channels") = 5
              /\ Count(prevRun.db, "streams") = 2

\* two successive successful runs, each leaving 3, 5 and 2 rows
C7_Witness ==
    /\ TwoRepairsSucceeded
    /\ Count(prevRun.db, "channels") = 5 /\ Count(durable, "channels") = 5
    /\ Count(prevRun.db, "streams") = 2 /\ Count(durable, "streams") = 2
    /\ Count(prevRun.db, "epg_sources") = 3 /\ Count(durable, "epg_sources") = 3

DiagOps ==
    <<"connect", "select_sources", "count", "count", "count", "count",
      "epg_mapped", "recent_programs", "init_check", "sample_channels", "close">>
ReportSections ==
    {"source", "no_sources", "count", "epg_mapped", "recent", "no_recent",
     "epg_tables", "channel", "complete"}
DiagFailed == tool = "diagnosis" /\ \E i \in 1..Len(log) : ~log[i].ok
Completed(op) == \E i \in 1..Len(log) : log[i].op = op /\ log[i].ok

\* C8 (as stated): when an operation of the diagnosis tool raises, the
\* exception is caught once, the tool exits with status 1, no later step runs,
\* nothing is retried, and the output holds no report section of the steps
\* before the failure.
C8_NoPartialReport ==
    DiagFailed =>
        /\ pc = "done" /\ exitStatus = 1
        /\ Cardinality(Lines("diagnosis_error")) = 1
        /\ [i \in 1..Len(log) |-> log[i].op] = SubSeq(DiagOps, 1, Len(log))
        /\ \A i \in 1..Len(out) : out[i].sec \notin ReportSections

\* C8 (amended): when an operation of the diagnosis tool raises, the exception
\* is caught once, the tool exits with status 1, no later step runs and nothing
\* is retried; the output holds the report sections of exactly the steps that
\* completed before the failure, followed by the error message.
C8_CaughtOnceAtOuterLevel ==
    DiagFailed =>
        /\ pc = "done" /\ exitStatus = 1
        /\ Cardinality(Lines("diagnosis_error")) = 1
        /\ out[Len(out)].sec = "diagnosis_error"
        /\ ~log[Len(log)].ok
        /\ \A i \in 1..(Len(log) - 1) : log[i].ok
        /\ [i \in 1..Len(log) |-> log[i].op] = SubSeq(DiagOps, 1, Len(log))
        /\ (HasLine("source") \/ HasLine("no_sources")) <=> Completed("select_sources")
        /\ Cardinality(Lines("count")) = Attempts("count") - (IF log[Len(log)].op = "count" THEN 1 ELSE 0)
        /\ HasLine("epg_mapped") <=> Completed("epg_mapped")
        /\ (HasLine("recent") \/ HasLine("no_recent")) <=> Completed("recent_programs")
        /\ HasLine("epg_tables") <=> Completed("init_check")
        /\ HasLine("channel") => Completed("sample_channels")
        /\ ~HasLine("complete")

\* a diagnosis run that failed in the record counts after printing the
\* sources section
C8_Witness ==
    /\ DiagFailed /\ pc = "done"
    /\ log[Len(log)] = Op("count", FALSE)
    /\ HasLine("source") \/ HasLine("no_sources")

\* C9: the diagnosis tool changes no table, however its run ends, and the
\* repair tool never changes epg_channels or epg_programs.
C9_ReadOnlyTables ==
    /\ tool = "diagnosis" => durable = pre.db /\ work = pre.db
    /\ tool = "repair" =>
         /\ durable.epg_channels = pre.db.epg_channels
         /\ durable.epg_programs = pre.db.epg_programs
         /\ work.epg_channels = pre.db.epg_channels
         /\ work.epg_programs = pre.db.epg_programs

\* a finished repair run that committed, over a database whose epg_channels
\* or epg_programs held a row, followed by a finished diagnosis run
C9_Witness ==
    /\ tool = "diagnosis" /\ pc = "done" /\ exitStatus = 0
    /\ prevRun.tool = "repair" /\ prevRun.status = 0
    /\ durable.epg_channels # {} \/ durable.epg_programs # {}

DiagSucceededOnNoSources ==
    tool = "diagnosis" /\ pc = "done" /\ exitStatus = 0 /\ pre.db.epg_sources = {}

\* C10 (as stated): on a database with no row in epg_sources the diagnosis
\* output holds the notice "No EPG sources configured!" and the four reported
\* table counts are all 0.
C10_NoticeAndAllCountsZero ==
    DiagSucceededOnNoSources =>
        /\ \E i \in Lines("no_sources") : out[i].arg = "No EPG sources configured!"
        /\ \A t \in {tables[k] : k \in 1..Len(tables)} :
              \E i \in Lines("count") : out[i].arg = t
        /\ \A i \in Lines("count") : out[i].n = 0

\* C10 (amended): on a database with no row in epg_sources a diagnosis run
\* that completes prints the notice "No EPG sources configured!", lists no
\* source, and reports for each of the four tables its own row count: 0 for
\* epg_sources, and for the other three whatever they hold.
C10_NoticeAndOwnCounts ==
    (tool = "diagnosis" /\ pre.db.epg_sources = {}) =>
        /\ Completed("select_sources") =>
              /\ \E i \in Lines("no_sources") : out[i].arg = "No EPG sources configured!"
              /\ ~HasLine("source")
        /\ \A i \in Lines("count") : out[i].n = Count(pre.db, out[i].arg)
        /\ \A i \in Lines("count") : out[i].arg = "epg_sources" => out[i].n = 0
        /\ (pc = "done" /\ exitStatus = 0) =>
              \A t \in {tables[k] : k \in 1..Len(tables)} :
                 Cardinality({i \in Lines("count") : out[i].arg = t}) = 1

\* a completed diagnosis of a database without sources but with a channel
C10_Witness ==
    /\ DiagSucceededOnNoSources
    /\ pre.db.channels # {}
    /\ \E i \in Lines("count") : out[i].arg = "channels" /\ out[i].n = 1

====
